---- MODULE Spec2Model ----
(***************************************************************************)
(* A model of CalibratorApp.py: the clamped colour arithmetic, the flat    *)
(* text files (monitor calibration, phone profiles), the five-step         *)
(* calibration wizard (CalibrationApp) and the second-stage settings panel *)
(* (StageTwoUI).                                                           *)
(*                                                                         *)
(* Text is a sequence of one-character strings, so that strip, split,      *)
(* lower/upper, float() and the f-string formats are computed character by *)
(* character.  A Python float is a record: [k |-> "num", v |-> n] is the   *)
(* number n / Scale (decimal fixed point), and "nan", "inf", "ninf" are    *)
(* the non-finite floats float() also produces.                            *)
(***************************************************************************)
EXTENDS Integers, Sequences, FiniteSets, TLC

(***************************************************************************)
(* Characters and text                                                     *)
(***************************************************************************)
DigitChars == <<"0", "1", "2", "3", "4", "5", "6", "7", "8", "9">>

HexChars == DigitChars \o <<"a", "b", "c", "d", "e", "f">>

LowerChars == <<"a", "b", "c", "d", "e", "f", "g", "h", "i", "j", "k", "l", "m",
                "n", "o", "p", "q", "r", "s", "t", "u", "v", "w", "x", "y", "z">>

UpperChars == <<"A", "B", "C", "D", "E", "F", "G", "H", "I", "J", "K", "L", "M",
                "N", "O", "P", "Q", "R", "S", "T", "U", "V", "W", "X", "Y", "Z">>

Whitespace == {" ", "\t", "\n"}

Range(s) == {s[i] : i \in DOMAIN s}

IsDigit(c) == c \in Range(DigitChars)

DigitVal(c) == (CHOOSE i \in DOMAIN DigitChars : DigitChars[i] = c) - 1

LowerChar(c) ==
    IF c \in Range(UpperChars)
    THEN LowerChars[CHOOSE i \in DOMAIN UpperChars : UpperChars[i] = c]
    ELSE c

UpperChar(c) ==
    IF c \in Range(LowerChars)
    THEN UpperChars[CHOOSE i \in DOMAIN LowerChars : LowerChars[i] = c]
    ELSE c

\* str.lower()
lower(s) == [i \in DOMAIN s |-> LowerChar(s[i])]

\* str.upper()
upper(s) == [i \in DOMAIN s |-> UpperChar(s[i])]

RECURSIVE lstrip(_)
lstrip(s) ==
    IF s # <<>> /\ Head(s) \in Whitespace THEN lstrip(Tail(s)) ELSE s

RECURSIVE rstrip(_)
rstrip(s) ==
    IF s # <<>> /\ s[Len(s)] \in Whitespace
    THEN rstrip(SubSeq(s, 1, Len(s) - 1))
    ELSE s

\* str.strip()
strip(s) == rstrip(lstrip(s))

\* The place of the first sep in s
first_index(s, sep) ==
    CHOOSE j \in DOMAIN s : s[j] = sep /\ \A k \in 1..(j - 1) : s[k] # sep

\* str.split(sep) for a one-character separator: the parts between the
\* separators, empty parts kept.
RECURSIVE split(_, _)
RECURSIVE split_at(_, _, _)
split(s, sep) ==
    IF \E i \in DOMAIN s : s[i] = sep THEN split_at(s, sep, first_index(s, sep))
    ELSE <<s>>

split_at(s, sep, i) ==
    <<SubSeq(s, 1, i - 1)>> \o split(SubSeq(s, i + 1, Len(s)), sep)

(***************************************************************************)
(* Floats                                                                  *)
(***************************************************************************)
\* One unit of the fixed point is 10^-4: a slider step (0.1) is 1000 units
\* and (Kelvin - 6500) / 100 is exact for temperatures of two decimals.
Scale == 100 * 100

Num(n) == [k |-> "num", v |-> n]

NaN == [k |-> "nan", v |-> 0]

PosInf == [k |-> "inf", v |-> 0]

NegInf == [k |-> "ninf", v |-> 0]

IsFinite(x) == x.k = "num"

FNeg(x) ==
    CASE x.k = "num" -> Num(-x.v)
      [] x.k = "inf" -> NegInf
      [] x.k = "ninf" -> PosInf
      [] OTHER -> NaN

FAdd(x, y) ==
    CASE x.k = "nan" \/ y.k = "nan" -> NaN
      [] x.k = "num" /\ y.k = "num" -> Num(x.v + y.v)
      [] x.k = "num" -> y
      [] y.k = "num" -> x
      [] x.k = y.k -> x
      [] OTHER -> NaN

FSub(x, y) == FAdd(x, FNeg(y))

\* x / d for a positive integer d
FDiv(x, d) == IF x.k = "num" THEN Num(x.v \div d) ELSE x

\* float(n) of a Python int
FromInt(n) == Num(n * Scale)

RECURSIVE Pow10(_)
Pow10(n) == IF n = 0 THEN 1 ELSE 10 * Pow10(n - 1)

\* The digits of a natural number, most significant first.
RECURSIVE NatDigits(_)
NatDigits(n) ==
    IF n < 10 THEN <<DigitChars[n + 1]>>
    ELSE NatDigits(n \div 10) \o <<DigitChars[(n % 10) + 1]>>

\* The value of a non-empty sequence of digits.
RECURSIVE DigitsVal(_)
DigitsVal(ds) ==
    IF ds = <<>> THEN 0
    ELSE 10 * DigitsVal(SubSeq(ds, 1, Len(ds) - 1)) + DigitVal(ds[Len(ds)])

AllDigits(s) == \A i \in DOMAIN s : IsDigit(s[i])

\* The value, in units, of the digits after a decimal point (digits past
\* the fixed point's resolution are dropped).
RECURSIVE FracVal(_, _)
FracVal(ds, unit) ==
    IF ds = <<>> \/ unit = 1 THEN 0
    ELSE DigitVal(Head(ds)) * (unit \div 10) + FracVal(Tail(ds), unit \div 10)

\* round(): to the nearest multiple of unit, ties to the even multiple.
RoundHalfEven(v, unit) ==
    IF 2 * (v % unit) < unit THEN v \div unit
    ELSE IF 2 * (v % unit) > unit THEN (v \div unit) + 1
    ELSE IF (v \div unit) % 2 = 0 THEN v \div unit ELSE (v \div unit) + 1

\* float(text): Python's float() on a string.  ok is FALSE where it raises
\* ValueError.  Accepted: surrounding whitespace, a sign, then "nan", "inf",
\* "infinity" in any letter case, or digits with an optional point and an
\* optional exponent.  (Digit-group underscores, and exponents that leave the
\* range of the fixed point, are not modelled.)
FloatError == [ok |-> FALSE, val |-> NaN]

FloatOk(x) == [ok |-> TRUE, val |-> x]

IsSigned(s) == s # <<>> /\ Head(s) \in {"+", "-"}

Unsigned(s) == IF IsSigned(s) THEN Tail(s) ELSE s

SignOf(s) == IF s # <<>> /\ Head(s) = "-" THEN -1 ELSE 1

scaled_value(sign, mag, exp) ==
    Num(sign * (IF exp >= 0 THEN mag * Pow10(exp) ELSE mag \div Pow10(-exp)))

parse_digits(sign, ip, fp, exp) ==
    IF AllDigits(ip) /\ AllDigits(fp) /\ ip \o fp # <<>>
    THEN FloatOk(scaled_value(sign, DigitsVal(ip) * Scale + FracVal(fp, Scale), exp))
    ELSE FloatError

parse_mantissa(sign, mparts, exp) ==
    IF Len(mparts) > 2 THEN FloatError
    ELSE parse_digits(sign, mparts[1], IF Len(mparts) = 2 THEN mparts[2] ELSE <<>>, exp)

parse_number(sign, eparts) ==
    IF Len(eparts) = 1 THEN parse_mantissa(sign, split(eparts[1], "."), 0)
    ELSE IF Len(eparts) = 2 /\ Unsigned(eparts[2]) # <<>> /\ AllDigits(Unsigned(eparts[2]))
    THEN parse_mantissa(sign, split(eparts[1], "."),
                        SignOf(eparts[2]) * DigitsVal(Unsigned(eparts[2])))
    ELSE FloatError

parse_body(sign, body) ==
    IF body = <<"n", "a", "n">> THEN FloatOk(NaN)
    ELSE IF body \in {<<"i", "n", "f">>, <<"i", "n", "f", "i", "n", "i", "t", "y">>}
    THEN FloatOk(IF sign < 0 THEN NegInf ELSE PosInf)
    ELSE parse_number(sign, split(body, "e"))

parse_stripped(t) == parse_body(SignOf(t), lower(Unsigned(t)))

ParseFloat(text) == parse_stripped(strip(text))

Abs(n) == IF n < 0 THEN -n ELSE n

\* The digits of a count of tenths: "12.3" for 123
tenths_text(tenths) == NatDigits(tenths \div 10) \o <<".">> \o NatDigits(tenths % 10)

\* f"{x:.1f}"
FormatF1(x) ==
    CASE x.k = "nan" -> <<"n", "a", "n">>
      [] x.k = "inf" -> <<"i", "n", "f">>
      [] x.k = "ninf" -> <<"-", "i", "n", "f">>
      [] OTHER -> (IF x.v < 0 THEN <<"-">> ELSE <<>>)
                  \o tenths_text(RoundHalfEven(Abs(x.v), Scale \div 10))

\* n written in exactly `width` digits, zero-padded on the left.
RECURSIVE PadDigits(_, _)
PadDigits(n, width) ==
    IF width = 0 THEN <<>>
    ELSE PadDigits(n \div 10, width - 1) \o <<DigitChars[(n % 10) + 1]>>

\* Trailing zeros dropped, at least one digit kept.
RECURSIVE TrimZeros(_)
TrimZeros(ds) ==
    IF Len(ds) > 1 /\ ds[Len(ds)] = "0"
    THEN TrimZeros(SubSeq(ds, 1, Len(ds) - 1))
    ELSE ds

\* str(x) of a float, as f"{x}" writes it: the shortest text that reads back
\* as x (positional notation: every number of the fixed point is at least
\* 10^-4 in magnitude, or zero).
ReprFloat(x) ==
    CASE x.k = "nan" -> <<"n", "a", "n">>
      [] x.k = "inf" -> <<"i", "n", "f">>
      [] x.k = "ninf" -> <<"-", "i", "n", "f">>
      [] OTHER -> (IF x.v < 0 THEN <<"-">> ELSE <<>>)
                  \o NatDigits(Abs(x.v) \div Scale) \o <<".">>
                  \o TrimZeros(PadDigits(Abs(x.v) % Scale, 4))

(***************************************************************************)
(* Colour arithmetic                                                       *)
(***************************************************************************)
Min(a, b) == IF a < b THEN a ELSE b

Max(a, b) == IF a > b THEN a ELSE b

\* int(round(value)) raises on a non-finite float (ValueError for nan,
\* OverflowError for an infinity).
clamp_raises(value) == ~IsFinite(value)

\* clamp without max_val: max(min_val, int(round(value)))
clamp_unbounded_above(value) ==
    Max(0, RoundHalfEven(value.v, Scale))

\* clamp(value, min_val=0, max_val=255)
clamp(value) ==
    Max(0, Min(RoundHalfEven(value.v, Scale), 255))

\* The hexadecimal digits of a natural number.
RECURSIVE HexDigits(_)
HexDigits(n) ==
    IF n < 16 THEN <<HexChars[n + 1]>>
    ELSE HexDigits(n \div 16) \o <<HexChars[(n % 16) + 1]>>

\* f'{n:02x}'
Hex2(n) == IF n < 16 THEN <<"0">> \o HexDigits(n) ELSE HexDigits(n)

compute_color_raises(base, wb, tint) ==
    \/ clamp_raises(FAdd(FromInt(base), wb))
    \/ clamp_raises(FAdd(FromInt(base), tint))
    \/ clamp_raises(FSub(FromInt(base), wb))

\* The r, g, b of compute_color
color_channels(base, wb, tint) ==
    <<clamp(FAdd(FromInt(base), wb)),
      clamp(FAdd(FromInt(base), tint)),
      clamp(FSub(FromInt(base), wb))>>

\* f'#{r:02x}{g:02x}{b:02x}'
hex_color(c) == <<"#">> \o Hex2(c[1]) \o Hex2(c[2]) \o Hex2(c[3])

\* compute_color(base, wb, tint): the text '#rrggbb'
compute_color(base, wb, tint) == hex_color(color_channels(base, wb, tint))

(***************************************************************************)
(* Dictionaries: a Python dict is the sequence of its entries in insertion *)
(* order.                                                                  *)
(***************************************************************************)
DictHas(d, key) == \E i \in DOMAIN d : d[i].key = key

DictGet(d, key) == d[CHOOSE i \in DOMAIN d : d[i].key = key].val

\* d[key] = val: a present key keeps its place.
DictPut(d, key, val) ==
    IF DictHas(d, key)
    THEN [i \in DOMAIN d |-> IF d[i].key = key THEN [key |-> key, val |-> val] ELSE d[i]]
    ELSE Append(d, [key |-> key, val |-> val])

DictKeys(d) == [i \in DOMAIN d |-> d[i].key]

\* d1 == d2 in Python: the same keys with the same values, in any order.
DictEqual(d1, d2) ==
    /\ Range(DictKeys(d1)) = Range(DictKeys(d2))
    /\ \A key \in Range(DictKeys(d1)) : DictGet(d1, key) = DictGet(d2, key)

(***************************************************************************)
(* Program constants                                                       *)
(***************************************************************************)
brightness_levels ==
    << [name |-> <<"b", "l", "a", "c", "k">>, base |-> 0],
       [name |-> <<"d", "a", "r", "k", " ", "g", "r", "a", "y">>, base |-> 64],
       [name |-> <<"g", "r", "a", "y">>, base |-> 128],
       [name |-> <<"l", "i", "g", "h", "t", " ", "g", "r", "a", "y">>, base |-> 192],
       [name |-> <<"w", "h", "i", "t", "e">>, base |-> 255] >>

test_color_values ==
    << [key |-> <<"B", "l", "a", "c", "k">>, val |-> 0],
       [key |-> <<"D", "a", "r", "k", " ", "G", "r", "a", "y">>, val |-> 64],
       [key |-> <<"G", "r", "a", "y">>, val |-> 128],
       [key |-> <<"L", "i", "g", "h", "t", " ", "G", "r", "a", "y">>, val |-> 192],
       [key |-> <<"W", "h", "i", "t", "e">>, val |-> 255] >>

NoFilesFoundText == <<"N", "o", " ", "f", "i", "l", "e", "s", " ", "f", "o", "u", "n", "d">>

NoProfilesText == <<"N", "o", " ", "p", "r", "o", "f", "i", "l", "e", "s">>

SelectPhoneProfileFileText == <<"S", "e", "l", "e", "c", "t", " ", "P", "h", "o", "n", "e", " ", "P", "r", "o", "f", "i", "l", "e", " ", "F", "i", "l", "e">>

SelectPhoneProfileText == <<"S", "e", "l", "e", "c", "t", " ", "P", "h", "o", "n", "e", " ", "P", "r", "o", "f", "i", "l", "e">>

NA == <<"N", "A">>

(***************************************************************************)
(* The monitor calibration file                                            *)
(***************************************************************************)
\* A file on disk: whether it exists, and its lines (without the newline
\* that ends each).
NoFile == [exists |-> FALSE, lines |-> <<>>]

FileOf(lines) == [exists |-> TRUE, lines |-> lines]

CalibrationEntry(wb, tint) == [white_balance |-> wb, tint |-> tint]

\* Lines 57-60: the entry stored, unless a float() raised
calibration_put(calibration_values, level, wb, tint) ==
    IF ~wb.ok \/ ~tint.ok THEN calibration_values
    ELSE DictPut(calibration_values, lower(strip(level)),
                 CalibrationEntry(wb.val, tint.val))

\* Line 56: wb, tint = params.split(',')
calibration_params(calibration_values, level, params) ==
    IF Len(params) # 2 THEN calibration_values
    ELSE calibration_put(calibration_values, level,
                         ParseFloat(params[1]), ParseFloat(params[2]))

\* Line 55: level, params = line.split(':')
calibration_fields(calibration_values, fields) ==
    IF Len(fields) # 2 THEN calibration_values
    ELSE calibration_params(calibration_values, fields[1], split(fields[2], ","))

\* Lines 51-62: one line of the calibration file added to the dictionary; a
\* blank line is skipped, and so is (after the message) a line on which the
\* unpacking of a split or a float() raises.
calibration_line(calibration_values, rawline) ==
    IF strip(rawline) = <<>> THEN calibration_values
    ELSE calibration_fields(calibration_values, split(strip(rawline), ":"))

RECURSIVE calibration_lines(_, _)
calibration_lines(calibration_values, lines) ==
    IF lines = <<>> THEN calibration_values
    ELSE calibration_lines(calibration_line(calibration_values, Head(lines)),
                           Tail(lines))

\* load_calibration_data(), reading `file`
load_calibration_data(file) ==
    IF file.exists THEN calibration_lines(<<>>, file.lines) ELSE <<>>

\* The record with the tint written before the white balance
calibration_record_swapped(level, values) ==
    level \o <<":">> \o ReprFloat(values.tint) \o <<",">> \o ReprFloat(values.white_balance)

\* f"{level}:{values['white_balance']},{values['tint']}\n"
calibration_record(level, values) ==
    level \o <<":">> \o ReprFloat(values.white_balance) \o <<",">> \o ReprFloat(values.tint)

\* save_calibration_data(calibration_values): the file it writes
save_calibration_data(calibration_values) ==
    FileOf([i \in DOMAIN calibration_values |->
               calibration_record(calibration_values[i].key, calibration_values[i].val)])

(***************************************************************************)
(* Phone profile files                                                     *)
(***************************************************************************)
\* [part.strip() for part in line.split("|")]
strip_all(parts) == [i \in DOMAIN parts |-> strip(parts[i])]

profile_fields(line) == strip_all(split(line, "|"))

\* float(text) if text not in ["", "NA"] else 0.0
correction_raises(text) == text \notin {<<>>, NA} /\ ~ParseFloat(text).ok

correction_value(text) ==
    IF text \in {<<>>, NA} THEN Num(0) ELSE ParseFloat(text).val

ProfileRecord(temperature, wb, tint) ==
    [temperature |-> temperature, wb_correction |-> wb, tint_correction |-> tint]

ReadResult(profiles, raised) == [profiles |-> profiles, raised |-> raised]

\* Lines 264-277, for the lines still to read: the dictionary built, and
\* whether a float() raised (the lines after that one are never read).
RECURSIVE read_phone_profiles(_, _)
RECURSIVE read_profile_line(_, _, _)
read_phone_profiles(profiles, lines) ==
    IF lines = <<>> THEN ReadResult(profiles, FALSE)
    ELSE IF strip(Head(lines)) = <<>> THEN read_phone_profiles(profiles, Tail(lines))
    ELSE read_profile_line(profiles, profile_fields(strip(Head(lines))), Tail(lines))

\* Lines 270-277: one line that is not blank
read_profile_line(profiles, parts, rest) ==
    IF Len(parts) < 4 THEN read_phone_profiles(profiles, rest)
    ELSE IF correction_raises(parts[3]) \/ correction_raises(parts[4])
    THEN ReadResult(profiles, TRUE)
    ELSE read_phone_profiles(
             DictPut(profiles, parts[1],
                     ProfileRecord(parts[2], correction_value(parts[3]),
                                   correction_value(parts[4]))),
             rest)

\* f"{profile_name} | {temperature} | {new_wb} | {new_tint}\n"
profile_record(profile_name, temperature, new_wb, new_tint) ==
    profile_name \o <<" ", "|", " ">> \o temperature \o <<" ", "|", " ">>
    \o new_wb \o <<" ", "|", " ">> \o new_tint

RewriteRaised(profiles) ==
    [new_lines |-> <<>>, profiles |-> profiles, rewritten |-> 0, raised |-> TRUE]

\* new_lines.append(line)
keep_line(line, r) == [r EXCEPT !.new_lines = <<line>> \o @]

\* new_lines.append(new_line)
put_line(new_line, r) ==
    [r EXCEPT !.new_lines = <<new_line>> \o @, !.rewritten = @ + 1]

\* Lines 361-382, for the lines still to copy: the lines to write, the
\* dictionary as updated, how many lines were rewritten, and whether the
\* update of the dictionary raised KeyError (nothing is written then).
\* temperature, new_wb and new_tint are the texts of lines 372-374.
RECURSIVE rewrite_lines(_, _, _, _, _, _)
RECURSIVE rewrite_line(_, _, _, _, _, _, _, _)
rewrite_lines(lines, selected_profile, temperature, new_wb, new_tint, profiles) ==
    IF lines = <<>>
    THEN [new_lines |-> <<>>, profiles |-> profiles, rewritten |-> 0, raised |-> FALSE]
    ELSE rewrite_line(Head(lines), profile_fields(strip(Head(lines))), Tail(lines),
                      selected_profile, temperature, new_wb, new_tint, profiles)

\* Lines 362-382: one line
rewrite_line(line, parts, rest, selected_profile, temperature, new_wb, new_tint, profiles) ==
    IF strip(line) = <<>>
    THEN rewrite_lines(rest, selected_profile, temperature, new_wb, new_tint, profiles)
    ELSE IF Len(parts) < 4 \/ parts[1] # selected_profile
    THEN keep_line(line, rewrite_lines(rest, selected_profile, temperature, new_wb,
                                       new_tint, profiles))
    ELSE IF ~DictHas(profiles, parts[1]) THEN RewriteRaised(profiles)
    ELSE put_line(profile_record(parts[1], temperature, new_wb, new_tint),
                  rewrite_lines(rest, selected_profile, temperature, new_wb, new_tint,
                                DictPut(profiles, parts[1],
                                        ProfileRecord(temperature,
                                                      ParseFloat(new_wb).val,
                                                      ParseFloat(new_tint).val))))

(***************************************************************************)
(* StageTwoUI.  A value S below is the object: one field per attribute,    *)
(* root_bg for the background of self.root, the entries of the two option  *)
(* menus, and raised, which tells that the running handler has raised.     *)
(***************************************************************************)
ZeroCalibration == CalibrationEntry(Num(0), Num(0))

\* Lines 330-332: assuming 6500K neutral, the correction of a temperature
temperature_offset(temp_val) == FDiv(FSub(temp_val, FromInt(6500)), 100)

\* Lines 328-334 on the stripped text
temp_str_corr(temp_str) ==
    IF upper(temp_str) # NA /\ temp_str # <<>> /\ ParseFloat(temp_str).ok
    THEN temperature_offset(ParseFloat(temp_str).val)
    ELSE Num(0)

\* Lines 326-334: the white-balance correction of the temperature text
phone_temp_corr(text) == temp_str_corr(strip(text))

\* test_color_values.get(test_color_name, 128)
base_of(test_color_name) ==
    IF DictHas(test_color_values, test_color_name)
    THEN DictGet(test_color_values, test_color_name)
    ELSE 128

\* calibration_data.get(key, {'white_balance': 0.0, 'tint': 0.0})
calibration_of(calibration_data, key) ==
    IF DictHas(calibration_data, key) THEN DictGet(calibration_data, key)
    ELSE ZeroCalibration

\* Lines 341-342
final_wb(calib, temp_corr, user_wb) == FAdd(FAdd(calib.white_balance, temp_corr), user_wb)

final_tint(calib, user_tint) == FAdd(calib.tint, user_tint)

\* Lines 344-345: compute_color raises, or the background is configured
set_background(S, base, wb, tint) ==
    IF compute_color_raises(base, wb, tint) THEN [S EXCEPT !.raised = TRUE]
    ELSE [S EXCEPT !.root_bg = compute_color(base, wb, tint)]

\* Lines 336-345, with the monitor calibration and the temperature
\* correction of the lines before
background_with(S, calib, temp_corr) ==
    set_background(S, base_of(S.test_color_var),
                   final_wb(calib, temp_corr, S.user_wb_var),
                   final_tint(calib, S.user_tint_var))

\* StageTwoUI.update_background
update_background(S) ==
    background_with(S, calibration_of(S.calibration_data, lower(S.test_color_var)),
                    phone_temp_corr(S.phone_temp_var))

\* The fields populated with the two corrections exchanged
populate_crossed(S, profile) ==
    [S EXCEPT !.user_wb_var = profile.tint_correction,
              !.user_tint_var = profile.wb_correction,
              !.phone_temp_var = profile.temperature]

\* Lines 300-305: the fields populated from a profile
populate(S, profile) ==
    [S EXCEPT !.user_wb_var = profile.wb_correction,
              !.user_tint_var = profile.tint_correction,
              !.phone_temp_var = profile.temperature]

\* StageTwoUI.on_phone_profile_change (self.phone_profiles is not set before
\* load_phone_profiles has run: AttributeError)
on_phone_profile_change(S, value) ==
    IF ~S.has_phone_profiles THEN [S EXCEPT !.raised = TRUE]
    ELSE IF DictHas(S.phone_profiles, value)
    THEN update_background(populate(S, DictGet(S.phone_profiles, value)))
    ELSE update_background(S)

\* Lines 284-289: the first profile selected, if there is one
select_first(S, profiles) ==
    IF profiles # <<>>
    THEN on_phone_profile_change([S EXCEPT !.phone_profile_var = profiles[1].key],
                                 profiles[1].key)
    ELSE [S EXCEPT !.phone_profile_var = NoProfilesText]

\* Lines 278-289: the profile menu rebuilt, each entry calling
\* on_phone_profile_change(name) and nothing else
rebuild_profile_menu(S, profiles) ==
    select_first([S EXCEPT !.phone_profile_menu =
                               [setit |-> FALSE, labels |-> DictKeys(profiles)]],
                 profiles)

\* Lines 264-289, with what reading the lines gave
profiles_read(S, r) ==
    IF r.raised
    THEN [S EXCEPT !.has_phone_profiles = TRUE, !.phone_profiles = r.profiles,
                   !.raised = TRUE]
    ELSE rebuild_profile_menu(
             [S EXCEPT !.has_phone_profiles = TRUE, !.phone_profiles = r.profiles],
             r.profiles)

\* StageTwoUI.load_phone_profiles
load_phone_profiles(S, filename, files) ==
    IF ~DictHas(files, filename)
    THEN [S EXCEPT !.has_phone_profiles = TRUE, !.phone_profiles = <<>>]
    ELSE profiles_read(S, read_phone_profiles(<<>>, DictGet(files, filename)))

\* Lines 247-256: the file menu rebuilt, each entry setting phone_file_var
\* and nothing else
rebuild_file_menu(S, file_names, files) ==
    IF file_names # <<>>
    THEN load_phone_profiles([S EXCEPT !.phone_file_menu = file_names,
                                       !.phone_file_var = file_names[1]],
                             file_names[1], files)
    ELSE [S EXCEPT !.phone_file_menu = file_names, !.phone_file_var = NoFilesFoundText]

\* StageTwoUI.load_phone_files; the directory lists its files in the order
\* of `files`.
load_phone_files(S, files) == rebuild_file_menu(S, DictKeys(files), files)

\* StageTwoUI.__init__ up to the widgets: the variables and the menus as
\* create_widgets builds them (each menu holding the one entry "").
new_stage_two(root_bg, calibration_data) ==
    [root_bg |-> root_bg,
     calibration_data |-> calibration_data,
     test_color_var |-> <<"G", "r", "a", "y">>,
     phone_file_var |-> SelectPhoneProfileFileText,
     phone_profile_var |-> SelectPhoneProfileText,
     phone_temp_var |-> NA,
     user_wb_var |-> Num(0),
     user_tint_var |-> Num(0),
     has_phone_profiles |-> FALSE,
     phone_profiles |-> <<>>,
     phone_file_menu |-> << <<>> >>,
     phone_profile_menu |-> [setit |-> TRUE, labels |-> << <<>> >>],
     raised |-> FALSE]

\* Lines 193-194, which an exception of load_phone_files skips
first_background(S) == IF S.raised THEN S ELSE update_background(S)

\* StageTwoUI.__init__
StageTwoUI(root_bg, calibration_data, files) ==
    first_background(load_phone_files(new_stage_two(root_bg, calibration_data), files))

SaveResult(S, files, written, rewritten) ==
    [S |-> S, files |-> files, written |-> written, rewritten |-> rewritten]

\* Lines 383-384, which an exception in the loop skips
write_lines(S, files, phone_file, r) ==
    IF r.raised
    THEN SaveResult([S EXCEPT !.phone_profiles = r.profiles, !.raised = TRUE],
                    files, FALSE, 0)
    ELSE SaveResult([S EXCEPT !.phone_profiles = r.profiles],
                    DictPut(files, phone_file, r.new_lines), TRUE, r.rewritten)

\* Lines 354-357: the lines of the file, none if it does not exist
read_lines(files, phone_file) ==
    IF DictHas(files, phone_file) THEN DictGet(files, phone_file) ELSE <<>>

\* StageTwoUI.on_save_changes: the object and the files afterwards, whether
\* the file was written and the number of lines rewritten.
on_save_changes(S, files) ==
    IF S.phone_file_var = <<>> \/ S.phone_file_var = NoFilesFoundText
    THEN SaveResult(S, files, FALSE, 0)
    ELSE write_lines(S, files, S.phone_file_var,
                     rewrite_lines(read_lines(files, S.phone_file_var),
                                   S.phone_profile_var, strip(S.phone_temp_var),
                                   FormatF1(S.user_wb_var), FormatF1(S.user_tint_var),
                                   S.phone_profiles))

(***************************************************************************)
(* CalibrationApp.  A value C below is the object: one field per attribute,*)
(* root_bg for the background of self.root, title for the overlay's title  *)
(* and overlay for whether the overlay window (and its Next button) exists.*)
(***************************************************************************)
\* str.capitalize()
capitalize(s) ==
    [i \in DOMAIN s |-> IF i = 1 THEN UpperChar(s[i]) ELSE LowerChar(s[i])]

calibration_title(level) == <<"C", "a", "l", "i", "b", "r", "a", "t", "i", "o", "n", ":", " ">> \o capitalize(level)

\* CalibrationApp.update_background
calibration_update_background(C) ==
    [C EXCEPT !.root_bg = compute_color(C.current_base, C.current_wb, C.current_tint)]

\* CalibrationApp.__init__
CalibrationApp(root_bg) ==
    calibration_update_background(
        [root_bg |-> root_bg,
         calibration_values |-> <<>>,
         current_index |-> 0,
         current_level |-> brightness_levels[1].name,
         current_base |-> brightness_levels[1].base,
         current_wb |-> Num(0),
         current_tint |-> Num(0),
         title |-> calibration_title(brightness_levels[1].name),
         overlay |-> TRUE])

\* float(val), 0.0 where it raises ValueError
slider_value(val) == IF ParseFloat(val).ok THEN ParseFloat(val).val ELSE Num(0)

\* CalibrationApp.on_wb_change
on_wb_change(C, val) ==
    calibration_update_background([C EXCEPT !.current_wb = slider_value(val)])

\* CalibrationApp.on_tint_change
on_tint_change(C, val) ==
    calibration_update_background([C EXCEPT !.current_tint = slider_value(val)])

\* Lines 148-152 of on_next: the pair recorded and the index advanced
record_level(C) ==
    [C EXCEPT !.calibration_values =
                  DictPut(@, C.current_level,
                          CalibrationEntry(C.current_wb, C.current_tint)),
              !.current_index = @ + 1]

\* Line 153: whether a level is left after the index was advanced
level_left(C) == C.current_index < Len(brightness_levels)

\* The next level shown without lines 155-158: the corrections are kept
show_level_keeping_sliders(C, level) ==
    calibration_update_background(
        [C EXCEPT !.current_level = level.name,
                  !.current_base = level.base,
                  !.title = calibration_title(level.name)])

\* Lines 154-160 of on_next: the next level shown, both corrections reset
show_level(C, level) ==
    calibration_update_background(
        [C EXCEPT !.current_level = level.name,
                  !.current_base = level.base,
                  !.current_wb = Num(0),
                  !.current_tint = Num(0),
                  !.title = calibration_title(level.name)])

next_level(C) == show_level(C, brightness_levels[C.current_index + 1])

(***************************************************************************)
(* The inputs of the model                                                 *)
(***************************************************************************)
\* Positions of a slider (from -50.0 to 50.0 in steps of 0.1) the user moves
\* it to.
SliderPositions == {Num(-50 * Scale), Num(123 * (Scale \div 10))}

\* The text Tk hands a Scale's command for a position
SliderTexts == {FormatF1(x) : x \in SliderPositions}

\* The texts the calibration stage's sliders hand their commands: the white
\* balance slider is moved to either position, the tint slider to one.
WbTexts == SliderTexts
TintTexts == {FormatF1(Num(123 * (Scale \div 10)))}

\* Corrections handed to compute_color: inside and outside [-50, 50]
Corrections ==
    {Num(n * (Scale \div 10)) : n \in {-100000, -2555, -505, -500, -5, 0, 4, 5, 15, 500, 2550, 99999}}

\* A calibration file as the calibration stage writes it
CalibrationWizard ==
    FileOf(<< \* 'black:0.0,0.0'
                  <<"b", "l", "a", "c", "k", ":", "0", ".", "0", ",", "0", ".", "0">>,
               \* 'dark gray:12.3,-50.0'
                  <<"d", "a", "r", "k", " ", "g", "r", "a", "y", ":", "1", "2", ".", "3", ",", "-", "5", "0", ".", "0">>,
               \* 'gray:-50.0,12.3'
                  <<"g", "r", "a", "y", ":", "-", "5", "0", ".", "0", ",", "1", "2", ".", "3">>,
               \* 'light gray:0.0,0.0'
                  <<"l", "i", "g", "h", "t", " ", "g", "r", "a", "y", ":", "0", ".", "0", ",", "0", ".", "0">>,
               \* 'white:12.3,12.3'
                  <<"w", "h", "i", "t", "e", ":", "1", "2", ".", "3", ",", "1", "2", ".", "3">> >>)

\* A calibration file edited by hand
CalibrationMessy ==
    FileOf(<< \* 'Gray : 5.5 , -3'
                  <<"G", "r", "a", "y", " ", ":", " ", "5", ".", "5", " ", ",", " ", "-", "3">>,
               \* ''
                  <<>>,
               \* 'white:1:2'
                  <<"w", "h", "i", "t", "e", ":", "1", ":", "2">>,
               \* 'black:x,0'
                  <<"b", "l", "a", "c", "k", ":", "x", ",", "0">>,
               \* 'light gray 1,2'
                  <<"l", "i", "g", "h", "t", " ", "g", "r", "a", "y", " ", "1", ",", "2">>,
               \* ' dark gray:80,.25'
                  <<" ", "d", "a", "r", "k", " ", "g", "r", "a", "y", ":", "8", "0", ",", ".", "2", "5">> >>)

\* Phone profile files
ProfilesPlain ==
    << \* 'Alpha | 6500 | 1.0 | -2.0'
       <<"A", "l", "p", "h", "a", " ", "|", " ", "6", "5", "0", "0", " ", "|", " ", "1", ".", "0", " ", "|", " ", "-", "2", ".", "0">>,
    \* 'Beta | NA | 0.5 | NA'
       <<"B", "e", "t", "a", " ", "|", " ", "N", "A", " ", "|", " ", "0", ".", "5", " ", "|", " ", "N", "A">> >>

ProfilesMessy ==
    << \* 'Alpha|7000|2.5|0'
       <<"A", "l", "p", "h", "a", "|", "7", "0", "0", "0", "|", "2", ".", "5", "|", "0">>,
    \* ''
       <<>>,
    \* '# notes'
       <<"#", " ", "n", "o", "t", "e", "s">>,
    \* 'Alpha | 5000 |  | 3.0'
       <<"A", "l", "p", "h", "a", " ", "|", " ", "5", "0", "0", "0", " ", "|", " ", " ", "|", " ", "3", ".", "0">>,
    \* 'Gamma | na | -60 | 50.0 | x'
       <<"G", "a", "m", "m", "a", " ", "|", " ", "n", "a", " ", "|", " ", "-", "6", "0", " ", "|", " ", "5", "0", ".", "0", " ", "|", " ", "x">> >>

ProfilesMalformed ==
    << \* 'Alpha | 6500 | 1.0 | 2.0'
       <<"A", "l", "p", "h", "a", " ", "|", " ", "6", "5", "0", "0", " ", "|", " ", "1", ".", "0", " ", "|", " ", "2", ".", "0">>,
    \* 'Bad | 6500 | abc | 0'
       <<"B", "a", "d", " ", "|", " ", "6", "5", "0", "0", " ", "|", " ", "a", "b", "c", " ", "|", " ", "0">>,
    \* 'Beta | 6500 | 1.0 | 2.0'
       <<"B", "e", "t", "a", " ", "|", " ", "6", "5", "0", "0", " ", "|", " ", "1", ".", "0", " ", "|", " ", "2", ".", "0">> >>

FileA == <<"a", ".", "t", "x", "t">>

FileB == <<"b", ".", "t", "x", "t">>

\* What main() finds when it runs the calibration stage: no calibration
\* file (an empty one is treated alike), and the directory of the phone
\* profile files.
CalibrationStarts ==
    { [file |-> NoFile,
       directory |-> << [key |-> FileA, val |-> ProfilesPlain] >>] }

\* What main() finds when it goes to the second stage at once: a calibration
\* file that is not empty, and the directory of the phone profile files.
StageTwoStarts ==
    { [file |-> CalibrationWizard,
       directory |-> << [key |-> FileA, val |-> ProfilesPlain],
                        [key |-> FileB, val |-> ProfilesMessy] >>],
      [file |-> CalibrationMessy,
       directory |-> << [key |-> FileB, val |-> ProfilesMessy],
                        [key |-> FileA, val |-> ProfilesPlain] >>],
      [file |-> CalibrationWizard,
       directory |-> << [key |-> FileA, val |-> ProfilesMalformed] >>],
      [file |-> CalibrationMessy,
       directory |-> << [key |-> FileA, val |-> <<>>] >>],
      [file |-> CalibrationWizard, directory |-> <<>>] }

\* Texts the user types into the temperature entry
TemperatureTexts ==
    { <<"7", "0", "0", "0">>,
      <<"n", "a", "n">>,
      <<"6", "5", "|", "0", "0">>,
      <<" ", "5", "0", "0", "0", " ">> }

(***************************************************************************)
(* State                                                                   *)
(***************************************************************************)
VARIABLES
    stage,             \* "color", "calibration", "stage_two", "crashed", "closed"
    color_in,          \* the arguments of the last call of compute_color
    color_out,         \* and what it returned
    calibration_file,  \* DisplaySettings/UserDisplayCalibration.txt
    cct_files,         \* the files of CCT_Settings: name -> lines
    cal,               \* the CalibrationApp object
    ui,                \* the StageTwoUI object
    finish_calls,      \* how often finish_callback was invoked
    calibration_writes,\* how often the calibration file was written
    events,            \* how many events the second stage has handled
    last_event,        \* the last of them
    active_profile     \* the profile last populated into the fields

vars == <<stage, color_in, color_out, calibration_file, cct_files, cal, ui,
          finish_calls, calibration_writes, events, last_event, active_profile>>

\* How many events of the second stage a run of the model handles
MaxEvents == 4

NotConstructed == [constructed |-> FALSE]

NoEvent == [op |-> "none", value |-> <<>>]

Event(op, value) == [op |-> op, value |-> value]

NoProfile == [set |-> FALSE, name |-> <<>>]

ProfileNamed(name) == [set |-> TRUE, name |-> name]

\* The profile whose record handler on_phone_profile_change(value) populates
\* into the fields of S, or `before` when it populates none.
populated_by(S, value, before) ==
    IF S.has_phone_profiles /\ DictHas(S.phone_profiles, value)
    THEN ProfileNamed(value)
    ELSE before

ColorIdle == color_in = [base |-> 0, wb |-> Num(0), tint |-> Num(0)] /\ color_out = <<>>

StageTwoIdle ==
    /\ ui = NotConstructed
    /\ events = 0
    /\ last_event = NoEvent
    /\ active_profile = NoProfile

CalibrationIdle ==
    /\ cal = NotConstructed
    /\ finish_calls = 0
    /\ calibration_writes = 0

(***************************************************************************)
(* compute_color on its own                                                *)
(***************************************************************************)
InitColor ==
    /\ stage = "color"
    /\ color_in \in [base : 0..255, wb : Corrections, tint : Corrections]
    /\ color_out = <<>>
    /\ calibration_file = NoFile
    /\ cct_files = <<>>
    /\ CalibrationIdle
    /\ StageTwoIdle

ComputeColor ==
    /\ stage = "color"
    /\ color_out = <<>>
    /\ color_out' = compute_color(color_in.base, color_in.wb, color_in.tint)
    /\ UNCHANGED <<stage, color_in, calibration_file, cct_files, cal, ui, finish_calls,
                   calibration_writes, events, last_event, active_profile>>

NextColor == ComputeColor

SpecColor == InitColor /\ [][NextColor]_vars

(***************************************************************************)
(* The calibration stage: main() finds no calibration file, or an empty    *)
(* one, and runs CalibrationApp.                                           *)
(***************************************************************************)
InitCalibration ==
    /\ stage = "calibration"
    /\ \E start \in CalibrationStarts :
           calibration_file = start.file /\ cct_files = start.directory
    /\ cal = CalibrationApp(<<>>)
    /\ finish_calls = 0
    /\ calibration_writes = 0
    /\ ColorIdle
    /\ StageTwoIdle

WbChange ==
    /\ stage = "calibration" /\ cal.overlay
    /\ \E val \in WbTexts : cal' = on_wb_change(cal, val)
    /\ UNCHANGED <<stage, color_in, color_out, calibration_file, cct_files, ui,
                   finish_calls, calibration_writes, events, last_event, active_profile>>

TintChange ==
    /\ stage = "calibration" /\ cal.overlay
    /\ \E val \in TintTexts : cal' = on_tint_change(cal, val)
    /\ UNCHANGED <<stage, color_in, color_out, calibration_file, cct_files, ui,
                   finish_calls, calibration_writes, events, last_event, active_profile>>

\* CalibrationApp.on_next with a level left
NextLevel ==
    /\ stage = "calibration" /\ cal.overlay
    /\ level_left(record_level(cal))
    /\ cal' = next_level(record_level(cal))
    /\ UNCHANGED <<stage, color_in, color_out, calibration_file, cct_files, ui,
                   finish_calls, calibration_writes, events, last_event, active_profile>>

\* The profile populated into the fields when StageTwoUI was constructed
first_active(S) ==
    IF S.has_phone_profiles /\ S.phone_profile_var # SelectPhoneProfileText
       /\ DictHas(S.phone_profiles, S.phone_profile_var)
    THEN ProfileNamed(S.phone_profile_var)
    ELSE NoProfile

\* Lines 163-165, with the StageTwoUI that finish_callback constructs
finish_with(C, S) ==
    /\ cal' = [C EXCEPT !.overlay = FALSE]
    /\ calibration_file' = save_calibration_data(C.calibration_values)
    /\ calibration_writes' = calibration_writes + 1
    /\ finish_calls' = finish_calls + 1
    /\ ui' = S
    /\ active_profile' = first_active(S)

finish_calibration(C) ==
    finish_with(C, StageTwoUI(C.root_bg, C.calibration_values, cct_files))

\* CalibrationApp.on_next at the last level: the file is written, the
\* overlay destroyed and finish_callback (run_stage_two) called, which
\* constructs StageTwoUI.
FinishCalibration ==
    /\ stage = "calibration" /\ cal.overlay
    /\ ~level_left(record_level(cal))
    /\ finish_calibration(record_level(cal))
    /\ stage' = "stage_two"
    /\ UNCHANGED <<color_in, color_out, cct_files, events, last_event>>

NextCalibration == WbChange \/ TintChange \/ NextLevel \/ FinishCalibration

SpecCalibration == InitCalibration /\ [][NextCalibration]_vars

(***************************************************************************)
(* The second stage: main() finds a calibration file that is not empty,    *)
(* loads it and constructs StageTwoUI; an exception of the constructor     *)
(* leaves main() before the main loop starts.                              *)
(***************************************************************************)
start_stage_two(S) ==
    /\ ui = S
    /\ stage = IF S.raised THEN "crashed" ELSE "stage_two"
    /\ active_profile = first_active(S)

InitStageTwo ==
    /\ \E start \in StageTwoStarts :
           /\ calibration_file = start.file
           /\ cct_files = start.directory
           /\ start_stage_two(StageTwoUI(<<>>, load_calibration_data(start.file),
                                         start.directory))
    /\ events = 0
    /\ last_event = NoEvent
    /\ ColorIdle
    /\ CalibrationIdle

\* The handler of an event starts with no exception pending.
Handling == [ui EXCEPT !.raised = FALSE]

Handle(op, value) ==
    /\ stage = "stage_two"
    /\ events < MaxEvents
    /\ events' = events + 1
    /\ last_event' = Event(op, value)
    /\ UNCHANGED <<stage, color_in, color_out, calibration_file, cal, finish_calls,
                   calibration_writes>>

\* An entry of the test colour menu: the variable is set and
\* on_test_color_change called.
SelectTestColor ==
    \E i \in DOMAIN test_color_values :
        /\ Handle("test_color", test_color_values[i].key)
        /\ ui' = update_background(
                     [Handling EXCEPT !.test_color_var = test_color_values[i].key])
        /\ UNCHANGED <<cct_files, active_profile>>

\* An entry of the file menu (line 250): phone_file_var is set.
SelectPhoneFile ==
    \E i \in DOMAIN ui.phone_file_menu :
        /\ Handle("phone_file", ui.phone_file_menu[i])
        /\ ui' = [Handling EXCEPT !.phone_file_var = ui.phone_file_menu[i]]
        /\ UNCHANGED <<cct_files, active_profile>>

\* The command of an entry of the profile menu: the entry create_widgets
\* made sets phone_profile_var and calls on_phone_profile_change (line 211),
\* an entry load_phone_profiles made calls on_phone_profile_change alone
\* (line 283).
profile_menu_command(S, value) ==
    IF S.phone_profile_menu.setit
    THEN on_phone_profile_change([S EXCEPT !.phone_profile_var = value], value)
    ELSE on_phone_profile_change(S, value)

SelectPhoneProfile ==
    \E i \in DOMAIN ui.phone_profile_menu.labels :
        /\ Handle("phone_profile", ui.phone_profile_menu.labels[i])
        /\ ui' = profile_menu_command(Handling, ui.phone_profile_menu.labels[i])
        /\ active_profile' =
               populated_by(ui, ui.phone_profile_menu.labels[i], active_profile)
        /\ UNCHANGED cct_files

\* The temperature entry (lines 216-217): typing sets phone_temp_var.
TypeTemperature ==
    \E text \in TemperatureTexts :
        /\ Handle("temperature", text)
        /\ ui' = [Handling EXCEPT !.phone_temp_var = text]
        /\ UNCHANGED <<cct_files, active_profile>>

\* The white balance slider (lines 221-223): the variable is set and
\* on_slider_change called.
MoveWbSlider ==
    \E x \in SliderPositions :
        /\ Handle("user_wb", FormatF1(x))
        /\ ui' = update_background([Handling EXCEPT !.user_wb_var = x])
        /\ UNCHANGED <<cct_files, active_profile>>

\* The tint slider (lines 228-230)
MoveTintSlider ==
    \E x \in SliderPositions :
        /\ Handle("user_tint", FormatF1(x))
        /\ ui' = update_background([Handling EXCEPT !.user_tint_var = x])
        /\ UNCHANGED <<cct_files, active_profile>>

saved(r) == ui' = r.S /\ cct_files' = r.files

\* The button 'Save changes to profile'
SaveChanges ==
    /\ Handle("save", ui.phone_file_var)
    /\ saved(on_save_changes(Handling, cct_files))
    /\ UNCHANGED active_profile

\* The button 'Finish setup', or the panel closed
FinishSetup ==
    /\ stage = "stage_two"
    /\ stage' = "closed"
    /\ last_event' = Event("finish", <<>>)
    /\ UNCHANGED <<color_in, color_out, calibration_file, cct_files, cal, ui,
                   finish_calls, calibration_writes, events, active_profile>>

Next ==
    \/ SelectTestColor
    \/ SelectPhoneFile
    \/ SelectPhoneProfile
    \/ TypeTemperature
    \/ MoveWbSlider
    \/ MoveTintSlider
    \/ SaveChanges
    \/ FinishSetup

Spec == InitStageTwo /\ [][Next]_vars

(***************************************************************************)
(* Properties                                                              *)
(***************************************************************************)
\* The value of two hexadecimal digits
HexPairValue(text, i) ==
    16 * ((CHOOSE k \in DOMAIN HexChars : HexChars[k] = text[i]) - 1)
    + ((CHOOSE k \in DOMAIN HexChars : HexChars[k] = text[i + 1]) - 1)

\* C1: for every base in 0..255 and every finite white-balance and tint
\* correction, inside or outside [-50, 50], compute_color returns '#rrggbb'
\* with red = clamp(base + wb), green = clamp(base + tint) and
\* blue = clamp(base - wb), each of them in 0..255.
C1_ChannelsWithin8Bits ==
    (stage = "color" /\ color_out # <<>>) =>
        /\ \A i \in 1..3 :
               color_channels(color_in.base, color_in.wb, color_in.tint)[i] \in 0..255
        /\ Len(color_out) = 7
        /\ \A i \in 1..3 :
               HexPairValue(color_out, 2 * i) =
                   color_channels(color_in.base, color_in.wb, color_in.tint)[i]

\* A correction far above 50 was clamped: red at 255, blue at 0.
C1_Witness ==
    /\ stage = "color"
    /\ color_out = <<"#", "f", "f", "8", "0", "0", "0">>
    /\ color_in.wb.v > 50 * Scale
    /\ color_in.tint.v = 0

TierNames == {brightness_levels[i].name : i \in DOMAIN brightness_levels}

\* C5: the calibration file the calibration stage has written, read by
\* load_calibration_data, gives a dictionary with exactly the five tier
\* names as keys and, for each tier, the white balance and the tint saved.
C5_CalibrationRoundTrip ==
    (stage = "stage_two" /\ calibration_writes > 0) =>
        /\ Range(DictKeys(load_calibration_data(calibration_file))) = TierNames
        /\ DictEqual(load_calibration_data(calibration_file), cal.calibration_values)

\* A file written with negative and fractional corrections was read back.
C5_Witness ==
    /\ stage = "stage_two"
    /\ calibration_writes = 1
    /\ DictGet(load_calibration_data(calibration_file), brightness_levels[1].name) =
           CalibrationEntry(Num(-50 * Scale), Num(123 * (Scale \div 10)))
    /\ DictGet(cal.calibration_values, brightness_levels[5].name) =
           CalibrationEntry(Num(123 * (Scale \div 10)), Num(0))

\* The first n tier names, in the order of brightness_levels
FirstTiers(n) == [i \in 1..n |-> brightness_levels[i].name]

\* The state of the wizard agrees with the number of levels advanced.
WizardInStep ==
    stage \in {"calibration", "stage_two"} =>
        /\ cal.current_index \in 0..5
        /\ DictKeys(cal.calibration_values) = FirstTiers(cal.current_index)
        /\ cal.current_index < 5 =>
               /\ cal.current_level = brightness_levels[cal.current_index + 1].name
               /\ cal.current_base = brightness_levels[cal.current_index + 1].base
               /\ cal.overlay /\ stage = "calibration"
               /\ finish_calls = 0 /\ calibration_writes = 0
               /\ ~calibration_file.exists
        /\ cal.current_index = 5 =>
               /\ finish_calls = 1 /\ calibration_writes = 1
               /\ ~cal.overlay /\ stage = "stage_two"
               /\ Len(calibration_file.lines) = 5
               /\ DictEqual(load_calibration_data(calibration_file),
                            cal.calibration_values)
               /\ ui.calibration_data = cal.calibration_values

\* A press of Next: the current pair is recorded under the current tier, the
\* pairs recorded before stay, and the next tier starts with both
\* corrections at 0.
WizardAdvances ==
    cal'.current_index # cal.current_index =>
        /\ cal'.current_index = cal.current_index + 1
        /\ DictGet(cal'.calibration_values, cal.current_level) =
               CalibrationEntry(cal.current_wb, cal.current_tint)
        /\ \A i \in DOMAIN cal.calibration_values :
               cal'.calibration_values[i] = cal.calibration_values[i]
        /\ cal'.current_index < 5 =>
               /\ cal'.current_wb = Num(0) /\ cal'.current_tint = Num(0)
               /\ cal'.root_bg = compute_color(cal'.current_base, Num(0), Num(0))

\* C7: the wizard goes through black, dark gray, gray, light gray, white in
\* this order; each Next records the current slider pair under the current
\* tier and moves to the next tier with both corrections at 0; the file is
\* written and the finish callback invoked exactly once, on the fifth Next
\* and not before, the file holding exactly the five tiers with the pairs
\* recorded.
C7_LinearWizard == [](WizardInStep) /\ [][WizardAdvances]_vars

\* The wizard has finished with different pairs under different tiers.
C7_Witness ==
    /\ stage = "stage_two"
    /\ finish_calls = 1
    /\ cal.current_index = 5
    /\ DictGet(cal.calibration_values, brightness_levels[1].name) =
           CalibrationEntry(Num(-50 * Scale), Num(0))
    /\ DictGet(cal.calibration_values, brightness_levels[3].name) =
           CalibrationEntry(Num(0), Num(123 * (Scale \div 10)))
    /\ DictGet(cal.calibration_values, brightness_levels[5].name) =
           CalibrationEntry(Num(123 * (Scale \div 10)), Num(123 * (Scale \div 10)))

\* A step that handles the event `op`
HandlerStep(op) == events' = events + 1 /\ last_event'.op = op

\* The lines of the file the save button acts on, before and after a step
LinesBefore == read_lines(cct_files, ui.phone_file_var)
LinesAfter == read_lines(cct_files', ui.phone_file_var)

\* The name a line of a profile file starts with
NameOfLine(line) == profile_fields(strip(line))[1]

\* C2: a save rewrites the line of the active profile, the one most recently
\* selected in the profile menu and populated into the fields: every line
\* of the file that is new after a save carries the name of that profile.
C2_SaveRewritesActiveProfile ==
    [][HandlerStep("save") =>
           \A i \in DOMAIN LinesAfter :
               LinesAfter[i] \notin Range(LinesBefore) =>
                   active_profile.set /\ NameOfLine(LinesAfter[i]) = active_profile.name]_vars

\* The colour update_background computes from the values S holds
ExpectedBackground(S) == update_background([S EXCEPT !.raised = FALSE])

\* C3: the background of the second stage is never stale: it is the colour
\* computed from the test colour, the temperature text and the sliders as
\* they are now.
C3_BackgroundNeverStale ==
    (stage = "stage_two" /\ ~ExpectedBackground(ui).raised) =>
        ui.root_bg = ExpectedBackground(ui).root_bg

\* A line of a profile file: at least four fields after a name
IsProfileLine(line, name) ==
    /\ strip(line) # <<>>
    /\ Len(profile_fields(strip(line))) >= 4
    /\ NameOfLine(line) = name

\* x rounded to one decimal
RoundedToTenth(x) ==
    IF IsFinite(x)
    THEN Num(RoundHalfEven(x.v, Scale \div 10) * (Scale \div 10))
    ELSE x

\* A profile file read again holds `record` under `name`.
ReloadGives(r, name, record) ==
    /\ ~r.raised
    /\ DictHas(r.profiles, name)
    /\ DictGet(r.profiles, name) = record

\* C4: after a save of a profile that has a line in the file, the file read
\* again gives for this profile the temperature text of the entry (without
\* the surrounding blanks) and the slider values rounded to one decimal,
\* whatever the temperature text is.
C4_SaveReloadRoundTrip ==
    [][(HandlerStep("save")
        /\ \E i \in DOMAIN LinesBefore : IsProfileLine(LinesBefore[i], ui.phone_profile_var)) =>
           ReloadGives(read_phone_profiles(<<>>, LinesAfter), ui.phone_profile_var,
                       ProfileRecord(strip(ui.phone_temp_var),
                                     RoundedToTenth(ui.user_wb_var),
                                     RoundedToTenth(ui.user_tint_var)))]_vars

\* A line with a name, a temperature and two corrections that are numbers,
\* empty or 'NA'
WellFormedLine(line) ==
    /\ strip(line) # <<>>
    /\ Len(profile_fields(strip(line))) >= 4
    /\ ~correction_raises(profile_fields(strip(line))[3])
    /\ ~correction_raises(profile_fields(strip(line))[4])

\* C6: the profile file read when the second stage starts never makes the
\* load fail: the well-formed lines are loaded whatever the other lines are.
C6_LoadSkipsMalformedLines ==
    (events = 0 /\ stage \in {"stage_two", "crashed"} /\ cct_files # <<>>) =>
        /\ stage = "stage_two"
        /\ \A i \in DOMAIN cct_files[1].val :
               WellFormedLine(cct_files[1].val[i]) =>
                   DictHas(ui.phone_profiles, NameOfLine(cct_files[1].val[i]))

\* The fields on_phone_profile_change populates
ProfileFields(S) == ProfileRecord(S.phone_temp_var, S.user_wb_var, S.user_tint_var)

C9_SaveRewritesOneLine ==
    [][HandlerStep("save") =>
           /\ Len(LinesAfter) = Len(LinesBefore)
           /\ Cardinality({i \in DOMAIN LinesBefore : LinesAfter[i] # LinesBefore[i]}) <= 1
           /\ \A j \in DOMAIN cct_files :
                  cct_files[j].key # ui.phone_file_var => cct_files'[j] = cct_files[j]]_vars

\* The text is one float() reads as a finite number.
DenotesNumber(text) == ParseFloat(text).ok /\ IsFinite(ParseFloat(text).val)

\* C10: with a temperature text that is not a number, a handler that
\* updates the background raises no error and the background is the one of
\* the temperature 6500, the text contributing exactly 0.
C10_NonNumericTemperatureIsNeutral ==
    (/\ stage = "stage_two"
     /\ last_event.op \in {"test_color", "user_wb", "user_tint"}
     /\ ~DenotesNumber(ui.phone_temp_var)) =>
        /\ ~ui.raised
        /\ phone_temp_corr(ui.phone_temp_var) = Num(0)
        /\ ui.root_bg =
               ExpectedBackground([ui EXCEPT !.phone_temp_var = <<"6", "5", "0", "0">>]).root_bg

\* The profiles of the file the file selection names now
ProfilesOfSelectedFile == read_phone_profiles(<<>>, DictGet(cct_files, ui.phone_file_var))

\* C11: after any sequence of events of the second stage, phone_profiles and
\* the profile menu are the profiles parsed from the file the file selection
\* names now, never those of a file selected before.
C11_ProfilesOfSelectedFile ==
    (stage = "stage_two" /\ DictHas(cct_files, ui.phone_file_var)) =>
        /\ ~ProfilesOfSelectedFile.raised
        /\ ui.has_phone_profiles
        /\ DictEqual(ui.phone_profiles, ProfilesOfSelectedFile.profiles)
        /\ ProfilesOfSelectedFile.profiles # <<>> =>
               Range(ui.phone_profile_menu.labels) =
                   Range(DictKeys(ProfilesOfSelectedFile.profiles))

====
